---- MODULE Spec2Model ----
(***************************************************************************)
(* Basketball shot tracker: the tracking loop, the socket handlers and the *)
(* estimators of BasketballTrackerWeb, BasketballTrackerPi and             *)
(* BasketballTracker (run_headless).                                       *)
(*                                                                         *)
(* Values.  None is the empty tuple, a pixel position is <<x, y>>, and an  *)
(* optional scalar v is <<v>>.  A distance or a speed is the pair <<n, d>> *)
(* standing for the real number sqrt(n) / d, so that np.sqrt and the       *)
(* divisions are exact.  Time is counted in tenths of a second.            *)
(***************************************************************************)
EXTENDS Integers, Sequences, FiniteSets, TLC

None == <<>>

Some(v) == <<v>>

\* ---------------------------------------------------------------- bounds

\* Frames the camera delivers after its scripted frames are used up.
MaxFrames == 2

\* Length of the scripted opening of a session.
WarmFrames == 3

\* Socket commands (calibrate_hoop, reset_trajectory) a session receives.
MaxCommands == 2

\* Length of the scripted camera run of SpecLong.
LongFrames == 52

\* Longest trajectory handed to calculate_ball_speed in SpecSpeed.
MaxTrajectory == 6

\* ------------------------------------------------------ program constants

maxlen == 50

frame_times_maxlen == 30

min_ball_radius == 5

max_ball_radius == 150

frame_skip == 1

broadcast_every == 5

headless_every == 10

pi_pixels_per_meter == 100

\* ------------------------------------------------------------ arithmetic

RECURSIVE SqrtSearch(_, _, _)
SqrtSearch(n, lo, hi) ==
    IF lo >= hi THEN lo
    ELSE LET mid == (lo + hi + 1) \div 2
         IN  IF mid * mid <= n THEN SqrtSearch(n, mid, hi)
             ELSE SqrtSearch(n, lo, mid - 1)

\* floor(sqrt(n))
Isqrt(n) == SqrtSearch(n, 0, IF n < 46340 THEN n ELSE 46340)

RECURSIVE Gcd(_, _)
Gcd(a, b) == IF b = 0 THEN a ELSE Gcd(b, a % b)

RECURSIVE Sum(_)
Sum(s) == IF s = <<>> THEN 0 ELSE Head(s) + Sum(Tail(s))

\* The real number sqrt(n)/d of a value <<n, d>> compared with another.
Greater(a, b) == a[1] * b[2] * b[2] > b[1] * a[2] * a[2]

Zero == <<0, 1>>

IsZero(a) == a[1] = 0

\* round(scale * sqrt(n) / d), halves up, for a value v = <<n, d>>
RoundScaled(v, scale) ==
    LET g == Gcd(scale, v[2])
        a == scale \div g
        b == v[2] \div g
        t == Isqrt(4 * a * a * v[1])
    IN  ((t \div b) + 1) \div 2

\* int(x) of a non-negative float given in tenths
IntOfTenths(x10) == x10 \div 10

\* ------------------------------------------------------ the estimators

speed_window == 5

\* a deque that drops the new entry instead of the oldest one when full
deque_append_drop_new(dq, e, cap) ==
    IF Len(dq) >= cap THEN dq ELSE Append(dq, e)

\* deque(maxlen=cap).append(e): append at the tail, drop the head on overflow
deque_append(dq, e, cap) ==
    LET s == Append(dq, e)
    IN  IF Len(s) > cap THEN Tail(s) ELSE s

\* list(dq)[-k:]
LastSlots(dq, k) ==
    IF Len(dq) <= k THEN dq ELSE SubSeq(dq, Len(dq) - k + 1, Len(dq))

IsPresent(p) == p # None

\* [pos for pos in positions if pos is not None]
NonAbsent(positions) == SelectSeq(positions, IsPresent)

\* max(contours, key=cv2.contourArea): the first contour of maximum area
RECURSIVE LargestFrom(_, _, _)
LargestFrom(contours, i, best) ==
    IF i > Len(contours) THEN best
    ELSE LargestFrom(contours, i + 1,
                     IF contours[i].area > contours[best].area THEN i ELSE best)

largest_contour(contours) == contours[LargestFrom(contours, 2, 1)]

\* "self.min_ball_radius < radius < self.max_ball_radius" for a contour
RadiusInBounds(c) ==
    min_ball_radius * 10 < c.r10 /\ c.r10 < max_ball_radius * 10

\* a detector whose radius test includes both bounds
detect_ball_inclusive(contours) ==
    IF Len(contours) > 0
    THEN LET c == largest_contour(contours)
         IN  IF min_ball_radius * 10 <= c.r10 /\ c.r10 <= max_ball_radius * 10
             THEN <<IntOfTenths(c.x10), IntOfTenths(c.y10), IntOfTenths(c.r10)>>
             ELSE None
    ELSE None

\* a detector that takes the largest contour among those with a radius in
\* bounds
detect_ball_any_in_bounds(contours) ==
    LET candidates == SelectSeq(contours, RadiusInBounds)
    IN  IF Len(candidates) > 0
        THEN LET c == largest_contour(candidates)
             IN  <<IntOfTenths(c.x10), IntOfTenths(c.y10), IntOfTenths(c.r10)>>
        ELSE None

\* detect_ball: a frame is the sequence of external contours of its cleaned
\* mask, each with its area and its minimum enclosing circle in tenths of a
\* pixel.
detect_ball(contours) ==
    IF Len(contours) > 0
    THEN LET c == largest_contour(contours)
         IN  IF min_ball_radius * 10 < c.r10 /\ c.r10 < max_ball_radius * 10
             THEN <<IntOfTenths(c.x10), IntOfTenths(c.y10), IntOfTenths(c.r10)>>
             ELSE None
    ELSE None

SqDist(p, q) == (p[1] - q[1]) * (p[1] - q[1]) + (p[2] - q[2]) * (p[2] - q[2])

\* a distance that falls back to pixels when no scale is set
calculate_distance_in_pixels(ball_pos, hoop, ppm) ==
    IF hoop = None
    THEN None
    ELSE <<SqDist(ball_pos, hoop), IF ppm = None THEN 1 ELSE ppm[1]>>

\* a distance that measures along the x axis only
calculate_distance_horizontal(ball_pos, hoop, ppm) ==
    IF hoop = None \/ ppm = None
    THEN None
    ELSE <<(ball_pos[1] - hoop[1]) * (ball_pos[1] - hoop[1]), ppm[1]>>

\* calculate_distance_from_hoop, in metres
calculate_distance_from_hoop(ball_pos, hoop, ppm) ==
    IF hoop = None \/ ppm = None
    THEN None
    ELSE <<SqDist(ball_pos, hoop), ppm[1]>>

\* "if self.pixels_per_meter:" is false for None and for 0
Truthy(ppm) == ppm # None /\ ppm[1] # 0

\* a speed that falls back to pixels when no scale is set
calculate_ball_speed_unscaled(positions, ppm, lat) ==
    IF Len(positions) < 2
    THEN Zero
    ELSE LET valid_positions == NonAbsent(LastSlots(positions, speed_window))
             k == Len(valid_positions)
         IN  IF k < 2
             THEN Zero
             ELSE IF lat > 0
                  THEN <<SqDist(valid_positions[k], valid_positions[k - 1]),
                         (IF Truthy(ppm) THEN ppm[1] ELSE 1) * lat>>
                  ELSE Zero

\* a speed taken from the whole trajectory instead of its last slots
calculate_ball_speed_whole_trajectory(positions, ppm, lat) ==
    IF Len(positions) < 2
    THEN Zero
    ELSE LET valid_positions == NonAbsent(positions)
             k == Len(valid_positions)
         IN  IF k < 2
             THEN Zero
             ELSE IF Truthy(ppm) /\ lat > 0
                  THEN <<SqDist(valid_positions[k], valid_positions[k - 1]),
                         ppm[1] * lat>>
                  ELSE Zero

\* calculate_ball_speed, in metres per tenth of a second (lat is
\* self.frame_latency in tenths of a second)
calculate_ball_speed(positions, ppm, lat) ==
    IF Len(positions) < 2
    THEN Zero
    ELSE LET valid_positions == NonAbsent(LastSlots(positions, speed_window))
             k == Len(valid_positions)
         IN  IF k < 2
             THEN Zero
             ELSE IF Truthy(ppm) /\ lat > 0
                  THEN <<SqDist(valid_positions[k], valid_positions[k - 1]),
                         ppm[1] * lat>>
                  ELSE Zero

\* ----------------------------------------------------------------- state

VARIABLES
    variant,          \* "web" | "pi" | "headless": which tracker class runs
    use_picamera,     \* BasketballTrackerPi.use_picamera
    main,             \* main thread: "new" | "serving" | "exited" | "gone"
    running,          \* self.running (self.is_running in BasketballTracker)
    pc,               \* position of the tracking thread and of the handler thread
    released,         \* calls of cap.release() / picam2.stop() so far
    ball_positions,   \* deque(maxlen=50)
    hoop_position,
    pixels_per_meter,
    frame_count,
    frame_times,      \* deque(maxlen=30)
    last_frame_time,
    frame_latency,
    fps,              \* <<num, den>>: the rational num/den
    detection_time,
    draw_time,
    current_distance,
    max_speed,
    total_shots,
    made_shots,
    missed_shots,
    frame,            \* tracking loop local: the frame just read
    ball_info,        \* tracking loop local
    traj,             \* broadcast_data local "trajectory", per thread
    cur,              \* broadcast_data local "current_speed", per thread
                      \* (both empty outside a call)
    camera,           \* frames the camera will deliver next (scripted scene)
    free_left,        \* frames the camera can still deliver after the script
    cmd_left,         \* socket commands the session will still receive
    client,           \* frame counts at which the dashboard client is connected
    captures,         \* capture attempts so far
    failed,           \* a capture has reported failure
    npush,            \* pushes the tracking loop made so far
    pushed,           \* everything pushed since the trajectory was last cleared
    emitted,          \* the snapshot the last step emitted, if it emitted one
    emits,            \* snapshots emitted so far, per thread
    request,          \* the socket event the handler thread is handling, with its data
    mutated,          \* per thread: ball_positions changed since its iterator was made
    ret               \* result of the last direct call of an estimator

vars == <<variant, use_picamera, main, running, pc, released, ball_positions,
          hoop_position, pixels_per_meter, frame_count, frame_times,
          last_frame_time, frame_latency, fps, detection_time, draw_time,
          current_distance, max_speed, total_shots, made_shots, missed_shots,
          frame, ball_info, traj, cur, camera, free_left, cmd_left, client,
          captures, failed, npush, pushed, emitted, emits, request, mutated,
          ret>>

\* what no step changes
fixed == <<variant, use_picamera, pixels_per_meter, client>>

\* what a step leaves alone unless it says so
config == <<fixed, request, mutated>>

shots == <<total_shots, made_shots, missed_shots>>

timing == <<frame_count, frame_times, last_frame_time, frame_latency, fps>>

Threads == {"loop", "handler"}

\* ------------------------------------------------------------ the camera

\* A contour whose enclosing circle is centred in pixel (x, y).
Blob(x, y, r) == [area |-> 3 * r * r, x10 |-> 10 * x + 4, y10 |-> 10 * y + 6,
                  r10 |-> 10 * r + 5]

Scenes == {<<>>, <<Blob(30, 40, 20)>>}

Latencies == {2}

\* A frame: the time since the last one (tenths of a second), the contours of
\* its mask, and the time its detection and its drawing take (tenths of ms).
Shot(lat, scene) == [lat |-> lat, contours |-> scene, det |-> 35, draw |-> 12]

FreeFrames == {Shot(l, c) : l \in Latencies, c \in Scenes}

\* The scripted run: a ball moving on a line, lost on every seventh frame.
LongScript ==
    [i \in 1..LongFrames |->
        Shot(1, IF i % 7 = 0 THEN <<>> ELSE <<Blob(i, 2 * i, 20)>>)]

\* The scripted opening: the ball seen at two places in turn.
WarmScript ==
    [i \in 1..WarmFrames |->
        Shot(IF i = 1 THEN 0 ELSE 5,
             IF i % 2 = 1 THEN <<Blob(0, 0, 20)>> ELSE <<Blob(30, 40, 20)>>)]

CameraFrames ==
    IF camera # <<>> THEN {Head(camera)}
    ELSE IF free_left > 0 THEN FreeFrames ELSE {}

HoopInputs == {<<100, 100>>, <<30, 40>>}

\* ------------------------------------------------------------------ Init

NoEmit ==
    [event |-> "none", src |-> "none", fps |-> 0, frame_latency |-> 0,
     detection_time |-> 0, draw_time |-> 0, distance |-> None,
     trajectory |-> <<>>, hoop_position |-> None, total_shots |-> 0,
     made_shots |-> 0, missed_shots |-> 0, accuracy |-> 0, current_speed |-> 0,
     max_speed |-> 0, positions_tracked |-> 0]

NoCall == [fn |-> "none", arg |-> None, val |-> None]

\* the handler thread is handling no event
NoRequest == [event |-> "none", data |-> None]

\* __init__ of the three classes, but for the attributes the estimators read
OtherAttributes ==
    /\ variant \in {"web", "pi", "headless"}
    /\ use_picamera \in (IF variant = "pi" THEN BOOLEAN ELSE {FALSE})
    /\ main = "new"
    /\ running = FALSE
    /\ pc = [t \in Threads |-> IF t = "loop" THEN "init" ELSE "idle"]
    /\ released = 0
    /\ frame_count = 0
    /\ frame_times = <<>>
    /\ last_frame_time = 0
    /\ fps = <<0, 1>>
    /\ detection_time = 0
    /\ draw_time = 0
    /\ current_distance = (IF variant = "headless" THEN Zero ELSE None)
    /\ max_speed = Zero
    /\ total_shots = 0
    /\ made_shots = 0
    /\ missed_shots = 0
    /\ frame = Shot(0, <<>>)
    /\ ball_info = None
    /\ traj = [t \in Threads |-> <<>>]
    /\ cur = [t \in Threads |-> Zero]
    /\ captures = 0
    /\ failed = FALSE
    /\ npush = 0
    /\ emitted = NoEmit
    /\ emits = [t \in Threads |-> 0]
    /\ request = NoRequest
    /\ mutated = [t \in Threads |-> FALSE]
    /\ ret = NoCall

\* a web class constructed with the Pi class's default scale
Constructed_with_default_scale ==
    /\ OtherAttributes
    /\ ball_positions = <<>>
    /\ pushed = <<>>
    /\ hoop_position = None
    /\ pixels_per_meter =
          (IF variant \in {"pi", "web"} THEN Some(pi_pixels_per_meter)
           ELSE None)
    /\ frame_latency = 0

\* __init__ of the three classes
Constructed ==
    /\ OtherAttributes
    /\ ball_positions = <<>>
    /\ pushed = <<>>
    /\ hoop_position = None
    /\ pixels_per_meter =
          (IF variant = "pi" THEN Some(pi_pixels_per_meter) ELSE None)
    /\ frame_latency = 0

\* A session: a camera that shows anything from its first frame, or one that
\* first shows the scripted opening.
Init ==
    /\ Constructed
    /\ camera \in {<<>>, WarmScript}
    /\ free_left = MaxFrames
    /\ cmd_left = MaxCommands
    /\ client = 0..(WarmFrames + MaxFrames)

\* ------------------------------------------------------- the main thread

\* start() sets running and starts the tracking thread, then serves;
\* run_tracker() starts run_headless, which sets is_running itself.
Start ==
    /\ main = "new"
    /\ main' = "serving"
    /\ running' = TRUE
    /\ pc' = [pc EXCEPT !["loop"] = "while"]
    /\ emitted' = NoEmit
    /\ UNCHANGED <<config, released, ball_positions, hoop_position, timing,
                   detection_time, draw_time, current_distance, max_speed,
                   shots, frame, ball_info, traj, cur, camera, free_left,
                   cmd_left, captures, failed, npush, pushed, emits, ret>>

\* a stop() that releases the camera itself
stop_and_release ==
    /\ main = "serving"
    /\ variant # "headless"
    /\ main' = "exited"
    /\ running' = FALSE
    /\ released' = released + 1
    /\ emitted' = NoEmit
    /\ UNCHANGED <<config, pc, ball_positions, hoop_position, timing,
                   detection_time, draw_time, current_distance, max_speed,
                   shots, frame, ball_info, traj, cur, camera, free_left,
                   cmd_left, captures, failed, npush, pushed, emits, ret>>

\* __main__: KeyboardInterrupt ends socketio.run and calls tracker.stop()
stop ==
    /\ main = "serving"
    /\ variant # "headless"
    /\ main' = "exited"
    /\ running' = FALSE
    /\ emitted' = NoEmit
    /\ UNCHANGED <<config, pc, released, ball_positions, hoop_position,
                   timing, detection_time, draw_time, current_distance,
                   max_speed, shots, frame, ball_info, traj, cur, camera,
                   free_left, cmd_left, captures, failed, npush, pushed,
                   emits, ret>>

\* __main__ returns after tracker.stop(): the interpreter exits without
\* joining the tracking thread ("tracking_thread.daemon = True"), so every
\* thread still at work ends where it is.
ProcessExit ==
    /\ main = "exited"
    /\ main' = "gone"
    /\ pc' = [t \in Threads |->
                 IF pc[t] \in {"done", "idle", "raised"} THEN pc[t]
                 ELSE "killed"]
    /\ emitted' = NoEmit
    /\ UNCHANGED <<config, running, released, ball_positions, hoop_position,
                   timing, detection_time, draw_time, current_distance,
                   max_speed, shots, frame, ball_info, traj, cur, camera,
                   free_left, cmd_left, captures, failed, npush, pushed,
                   emits, ret>>

\* -------------------------------------------------- the tracking thread

\* where the thread goes when the while loop ends: tracking_loop calls
\* self.cleanup(); run_headless returns to run_tracker, which returns.
AfterLoop == IF variant = "headless" THEN "done" ELSE "cleanup"

\* "while self.running:"
LoopTest ==
    /\ pc["loop"] = "while"
    /\ pc' = [pc EXCEPT !["loop"] = IF running THEN "read" ELSE AfterLoop]
    /\ emitted' = NoEmit
    /\ UNCHANGED <<config, main, running, released, ball_positions,
                   hoop_position, timing, detection_time, draw_time,
                   current_distance, max_speed, shots, frame, ball_info, traj,
                   cur, camera, free_left, cmd_left, captures, failed, npush,
                   pushed, emits, ret>>

\* capture_frame with the Pi camera always reports success
CanFail == ~(variant = "pi" /\ use_picamera)

\* a loop that tries again after a failed capture ("continue")
CaptureFail_retry ==
    /\ pc["loop"] = "read"
    /\ CanFail
    /\ captures' = captures + 1
    /\ failed' = TRUE
    /\ pc' = [pc EXCEPT !["loop"] = "while"]
    /\ emitted' = NoEmit
    /\ UNCHANGED <<config, main, running, released, ball_positions,
                   hoop_position, timing, detection_time, draw_time,
                   current_distance, max_speed, shots, frame, ball_info, traj,
                   cur, camera, free_left, cmd_left, npush, pushed, emits,
                   ret>>

\* "if not ret: break" ("return None" and "if frame is None: break")
CaptureFail ==
    /\ pc["loop"] = "read"
    /\ CanFail
    /\ captures' = captures + 1
    /\ failed' = TRUE
    /\ pc' = [pc EXCEPT !["loop"] = AfterLoop]
    /\ emitted' = NoEmit
    /\ UNCHANGED <<config, main, running, released, ball_positions,
                   hoop_position, timing, detection_time, draw_time,
                   current_distance, max_speed, shots, frame, ball_info, traj,
                   cur, camera, free_left, cmd_left, npush, pushed, emits, ret>>

\* fps = 1.0 / avg_frame_time if avg_frame_time > 0 else 0, per second
FpsOf(times) ==
    IF Len(times) > 0 /\ Sum(times) > 0 THEN <<10 * Len(times), Sum(times)>>
    ELSE <<0, 1>>

\* the pc after "self.frame_count += 1": BasketballTracker.process_frame has
\* no frame_skip test
AfterCount(n) ==
    IF variant # "headless" /\ n % frame_skip # 0 THEN "while" ELSE "detect"

\* a frame is read: latency, frame_times, fps and frame_count are updated
CaptureOk(f) ==
    /\ pc["loop"] = "read"
    /\ captures' = captures + 1
    /\ camera' = (IF camera # <<>> THEN Tail(camera) ELSE camera)
    /\ free_left' = (IF camera # <<>> THEN free_left ELSE free_left - 1)
    /\ frame' = f
    /\ frame_latency' = f.lat
    /\ last_frame_time' = last_frame_time + f.lat
    /\ frame_times' = deque_append(frame_times, f.lat, frame_times_maxlen)
    /\ fps' = FpsOf(frame_times')
    /\ frame_count' = frame_count + 1
    /\ pc' = [pc EXCEPT !["loop"] = AfterCount(frame_count')]
    /\ emitted' = NoEmit
    /\ UNCHANGED <<config, main, running, released, ball_positions,
                   hoop_position, detection_time, draw_time, current_distance,
                   max_speed, shots, ball_info, traj, cur, cmd_left, failed,
                   npush, pushed, emits, ret>>

\* ball_info = self.detect_ball(frame)
Detect ==
    /\ pc["loop"] = "detect"
    /\ ball_info' = detect_ball(frame.contours)
    /\ detection_time' = frame.det
    /\ pc' = [pc EXCEPT !["loop"] = "append"]
    /\ emitted' = NoEmit
    /\ UNCHANGED <<config, main, running, released, ball_positions,
                   hoop_position, timing, draw_time, current_distance,
                   max_speed, shots, frame, traj, cur, camera, free_left,
                   cmd_left, captures, failed, npush, pushed, emits, ret>>

\* the (x, y) of a detection
PosOf(info) == <<info[1], info[2]>>

\* a loop that counts a missed shot in every cycle that loses the ball
Push_counting_shots ==
    /\ pc["loop"] = "append"
    /\ ball_positions' =
          deque_append(ball_positions,
                       IF ball_info # None THEN PosOf(ball_info) ELSE None,
                       maxlen)
    /\ npush' = npush + 1
    /\ pushed' = Append(pushed, IF ball_info # None THEN PosOf(ball_info) ELSE None)
    /\ total_shots' = (IF ball_info = None THEN total_shots + 1 ELSE total_shots)
    /\ missed_shots' = (IF ball_info = None THEN missed_shots + 1
                        ELSE missed_shots)
    /\ made_shots' = made_shots
    /\ pc' = [pc EXCEPT !["loop"] =
                 IF variant = "headless" THEN "draw"
                 ELSE IF ball_info # None THEN "dist" ELSE "tick"]
    /\ mutated' = [mutated EXCEPT !["handler"] = (pc["handler"] = "b_next")]
    /\ emitted' = NoEmit
    /\ UNCHANGED <<fixed, request, main, running, released, hoop_position, timing,
                   detection_time, draw_time, current_distance, max_speed,
                   frame, ball_info, traj, cur, camera, free_left,
                   cmd_left, captures, failed, emits, ret>>

\* a loop that records detections only and skips the cycles without one
Push_detections_only ==
    /\ pc["loop"] = "append"
    /\ ball_positions' =
          (IF ball_info # None
           THEN deque_append(ball_positions, PosOf(ball_info), maxlen)
           ELSE ball_positions)
    /\ npush' = (IF ball_info # None THEN npush + 1 ELSE npush)
    /\ pushed' = (IF ball_info # None THEN Append(pushed, PosOf(ball_info))
                  ELSE pushed)
    /\ pc' = [pc EXCEPT !["loop"] =
                 IF variant = "headless" THEN "draw"
                 ELSE IF ball_info # None THEN "dist" ELSE "tick"]
    /\ mutated' = [mutated EXCEPT !["handler"] = (pc["handler"] = "b_next")]
    /\ emitted' = NoEmit
    /\ UNCHANGED <<fixed, request, main, running, released, hoop_position, timing,
                   detection_time, draw_time, current_distance, max_speed,
                   shots, frame, ball_info, traj, cur, camera, free_left,
                   cmd_left, captures, failed, emits, ret>>

\* a loop that appends the position and stores its distance in one step
Push_with_distance ==
    /\ pc["loop"] = "append"
    /\ ball_positions' =
          deque_append(ball_positions,
                       IF ball_info # None THEN PosOf(ball_info) ELSE None,
                       maxlen)
    /\ npush' = npush + 1
    /\ pushed' = Append(pushed, IF ball_info # None THEN PosOf(ball_info) ELSE None)
    /\ current_distance' =
          (IF variant # "headless" /\ ball_info # None
           THEN calculate_distance_from_hoop(PosOf(ball_info), hoop_position,
                                             pixels_per_meter)
           ELSE current_distance)
    /\ pc' = [pc EXCEPT !["loop"] =
                 IF variant = "headless" THEN "draw" ELSE "tick"]
    /\ mutated' = [mutated EXCEPT !["handler"] = (pc["handler"] = "b_next")]
    /\ emitted' = NoEmit
    /\ UNCHANGED <<fixed, request, main, running, released, hoop_position, timing,
                   detection_time, draw_time, max_speed, shots, frame,
                   ball_info, traj, cur, camera, free_left, cmd_left,
                   captures, failed, emits, ret>>

\* "Update trajectory": the detected position or None is appended
Push ==
    /\ pc["loop"] = "append"
    /\ ball_positions' =
          deque_append(ball_positions,
                       IF ball_info # None THEN PosOf(ball_info) ELSE None,
                       maxlen)
    /\ npush' = npush + 1
    /\ pushed' = Append(pushed, IF ball_info # None THEN PosOf(ball_info) ELSE None)
    /\ pc' = [pc EXCEPT !["loop"] =
                 IF variant = "headless" THEN "draw"
                 ELSE IF ball_info # None THEN "dist" ELSE "tick"]
    /\ mutated' = [mutated EXCEPT !["handler"] = (pc["handler"] = "b_next")]
    /\ emitted' = NoEmit
    /\ UNCHANGED <<fixed, request, main, running, released, hoop_position, timing,
                   detection_time, draw_time, current_distance, max_speed,
                   shots, frame, ball_info, traj, cur, camera, free_left,
                   cmd_left, captures, failed, emits, ret>>

\* self.current_distance = self.calculate_distance_from_hoop(...)
UpdateDistance ==
    /\ pc["loop"] = "dist"
    /\ current_distance' =
          calculate_distance_from_hoop(PosOf(ball_info), hoop_position,
                                       pixels_per_meter)
    /\ pc' = [pc EXCEPT !["loop"] = "tick"]
    /\ emitted' = NoEmit
    /\ UNCHANGED <<config, main, running, released, ball_positions,
                   hoop_position, timing, detection_time, draw_time,
                   max_speed, shots, frame, ball_info, traj, cur, camera,
                   free_left, cmd_left, captures, failed, npush, pushed,
                   emits, ret>>

\* draw_info in process_frame: current_distance is kept when the distance
\* is None
DrawnDistance ==
    IF ball_info = None THEN current_distance
    ELSE LET distance == calculate_distance_from_hoop(PosOf(ball_info),
                                                      hoop_position,
                                                      pixels_per_meter)
         IN  IF distance # None THEN distance ELSE current_distance

draw_info ==
    /\ pc["loop"] = "draw"
    /\ current_distance' = DrawnDistance
    /\ draw_time' = frame.draw
    /\ pc' = [pc EXCEPT !["loop"] = "tick"]
    /\ emitted' = NoEmit
    /\ UNCHANGED <<config, main, running, released, ball_positions,
                   hoop_position, timing, detection_time, max_speed, shots,
                   frame, ball_info, traj, cur, camera, free_left, cmd_left,
                   captures, failed, npush, pushed, emits, ret>>

\* round(x, 1) of the rational fps, in tenths
RoundFps(f) == (20 * f[1] + f[2]) \div (2 * f[2])

\* round(made / total * 100, 1) if total > 0 else 0, in tenths of a percent
Accuracy == IF total_shots > 0
            THEN (2000 * made_shots + total_shots) \div (2 * total_shots)
            ELSE 0

\* get_dashboard_data: distance is round(self.current_distance, 2), in
\* hundredths of a metre
get_dashboard_data ==
    [event |-> "update_data", src |-> "loop", fps |-> RoundFps(fps),
     frame_latency |-> 1000 * frame_latency,
     detection_time |-> detection_time, draw_time |-> draw_time,
     distance |-> Some(RoundScaled(current_distance, 100)),
     trajectory |-> <<>>, hoop_position |-> None,
     total_shots |-> total_shots, made_shots |-> made_shots,
     missed_shots |-> missed_shots, accuracy |-> Accuracy,
     current_speed |-> 0, max_speed |-> 0,
     positions_tracked |-> Len(NonAbsent(ball_positions))]

\* a headless loop that publishes as often as the web classes do
Period_of_web_classes == broadcast_every

\* the publish period of the running variant
Period == IF variant = "headless" THEN headless_every ELSE broadcast_every

\* "if self.frame_count % 5 == 0: self.broadcast_data()", and in
\* run_headless "if self.frame_count % 10 == 0: socketio.emit(...)"
Tick ==
    /\ pc["loop"] = "tick"
    /\ IF frame_count % Period # 0
       THEN /\ pc' = [pc EXCEPT !["loop"] = "while"]
            /\ emitted' = NoEmit
            /\ emits' = emits
       ELSE IF variant = "headless"
            THEN /\ emitted' = get_dashboard_data
                 /\ emits' = [emits EXCEPT !["loop"] = @ + 1]
                 /\ pc' = [pc EXCEPT !["loop"] = "while"]
            ELSE /\ pc' = [pc EXCEPT !["loop"] = "b_iter"]
                 /\ emitted' = NoEmit
                 /\ emits' = emits
    /\ UNCHANGED <<config, main, running, released, ball_positions,
                   hoop_position, timing, detection_time, draw_time,
                   current_distance, max_speed, shots, frame, ball_info, traj,
                   cur, camera, free_left, cmd_left, captures, failed, npush,
                   pushed, ret>>

\* cleanup(): cap.release(), or picam2.stop() with the Pi camera
cleanup ==
    /\ pc["loop"] = "cleanup"
    /\ released' = released + 1
    /\ pc' = [pc EXCEPT !["loop"] = "done"]
    /\ emitted' = NoEmit
    /\ UNCHANGED <<config, main, running, ball_positions, hoop_position,
                   timing, detection_time, draw_time, current_distance,
                   max_speed, shots, frame, ball_info, traj, cur, camera,
                   free_left, cmd_left, captures, failed, npush, pushed,
                   emits, ret>>

\* ------------------------------------------------------- broadcast_data
\* broadcast_data is run by the tracking thread and by the handler thread;
\* its statements interleave with the other thread's.

\* where broadcast_data returns to
AfterBroadcast(t) == IF t = "loop" THEN "while" ELSE "idle"

\* where an exception raised in broadcast_data leaves the thread: nothing
\* catches it in tracking_loop, so the tracking thread ends without
\* cleanup(); the socket server catches what a handler raises
AfterRaise(t) == IF t = "loop" THEN "raised" ELSE "idle"

\* "for pos in self.ball_positions": the deque iterator is made. A deque
\* iterator raises RuntimeError("deque mutated during iteration") from its
\* next step, the last one included, once the deque was appended to or
\* cleared.
MakeIterator(t) ==
    /\ pc[t] = "b_iter"
    /\ mutated' = [mutated EXCEPT ![t] = FALSE]
    /\ pc' = [pc EXCEPT ![t] = "b_next"]
    /\ emitted' = NoEmit
    /\ UNCHANGED <<fixed, request, main, running, released, ball_positions,
                   hoop_position, timing, detection_time, draw_time,
                   current_distance, max_speed, shots, frame, ball_info, traj,
                   cur, camera, free_left, cmd_left, captures, failed, npush,
                   pushed, emits, ret>>

\* "for pos in self.ball_positions: if pos is not None: trajectory.append",
\* to the end of the iteration or to the RuntimeError
BuildTrajectory(t) ==
    /\ pc[t] = "b_next"
    /\ IF mutated[t]
       THEN /\ pc' = [pc EXCEPT ![t] = AfterRaise(t)]
            /\ traj' = [traj EXCEPT ![t] = <<>>]
            /\ request' = (IF t = "handler" THEN NoRequest ELSE request)
       ELSE /\ pc' = [pc EXCEPT ![t] = "b_speed"]
            /\ traj' = [traj EXCEPT ![t] = NonAbsent(ball_positions)]
            /\ request' = request
    /\ mutated' = [mutated EXCEPT ![t] = FALSE]
    /\ emitted' = NoEmit
    /\ UNCHANGED <<fixed, main, running, released, ball_positions,
                   hoop_position, timing, detection_time, draw_time,
                   current_distance, max_speed, shots, frame, ball_info, cur,
                   camera, free_left, cmd_left, captures, failed, npush,
                   pushed, emits, ret>>

\* "current_speed = self.calculate_ball_speed()" and the test
\* "if current_speed > self.max_speed"
ComputeSpeed(t) ==
    /\ pc[t] = "b_speed"
    /\ cur' = [cur EXCEPT ![t] =
                  calculate_ball_speed(ball_positions, pixels_per_meter,
                                       frame_latency)]
    /\ pc' = [pc EXCEPT ![t] =
                 IF Greater(cur'[t], max_speed) THEN "b_store" ELSE "b_emit"]
    /\ emitted' = NoEmit
    /\ UNCHANGED <<config, main, running, released, ball_positions,
                   hoop_position, timing, detection_time, draw_time,
                   current_distance, max_speed, shots, frame, ball_info, traj,
                   camera, free_left, cmd_left, captures, failed, npush,
                   pushed, emits, ret>>

\* "self.max_speed = current_speed"
StoreMaxSpeed(t) ==
    /\ pc[t] = "b_store"
    /\ max_speed' = cur[t]
    /\ pc' = [pc EXCEPT ![t] = "b_emit"]
    /\ emitted' = NoEmit
    /\ UNCHANGED <<config, main, running, released, ball_positions,
                   hoop_position, timing, detection_time, draw_time,
                   current_distance, shots, frame, ball_info, traj, cur,
                   camera, free_left, cmd_left, captures, failed, npush,
                   pushed, emits, ret>>

\* "if self.current_distance" is false for None and for 0.0
HasDistance == current_distance # None /\ ~IsZero(current_distance)

\* the data dictionary: distances in hundredths of a metre, speeds in
\* hundredths of a metre per second, fps in tenths
Snapshot(t) ==
    [event |-> "update", src |-> t, fps |-> RoundFps(fps),
     frame_latency |-> 1000 * frame_latency,
     detection_time |-> detection_time, draw_time |-> draw_time,
     distance |-> IF HasDistance THEN Some(RoundScaled(current_distance, 100))
                  ELSE None,
     trajectory |-> traj[t], hoop_position |-> hoop_position,
     total_shots |-> total_shots, made_shots |-> made_shots,
     missed_shots |-> missed_shots, accuracy |-> Accuracy,
     current_speed |-> RoundScaled(cur[t], 1000),
     max_speed |-> RoundScaled(max_speed, 1000),
     positions_tracked |-> Len(NonAbsent(ball_positions))]

\* "self.socketio.emit('update', data)"
Emit(t) ==
    /\ pc[t] = "b_emit"
    /\ emitted' = Snapshot(t)
    /\ emits' = [emits EXCEPT ![t] = @ + 1]
    /\ request' = (IF t = "handler" THEN NoRequest ELSE request)
    /\ traj' = [traj EXCEPT ![t] = <<>>]
    /\ cur' = [cur EXCEPT ![t] = Zero]
    /\ pc' = [pc EXCEPT ![t] = AfterBroadcast(t)]
    /\ UNCHANGED <<fixed, mutated, main, running, released, ball_positions,
                   hoop_position, timing, detection_time, draw_time,
                   current_distance, max_speed, shots, frame, ball_info,
                   camera, free_left, cmd_left, captures, failed, npush,
                   pushed, ret>>

\* ---------------------------------------------------- the socket handlers

\* the server is up, the client is connected and sends a command
Serving ==
    /\ main = "serving"
    /\ variant # "headless"
    /\ cmd_left > 0
    /\ frame_count \in client

\* a handler that takes the hoop position as (y, x)
handle_calibrate_hoop_swapped(x, y) ==
    /\ Serving
    /\ pc["handler"] = "idle"
    /\ hoop_position' = <<y, x>>
    /\ cmd_left' = cmd_left - 1
    /\ request' = [event |-> "calibrate_hoop", data |-> <<x, y>>]
    /\ pc' = [pc EXCEPT !["handler"] = "b_iter"]
    /\ emitted' = NoEmit
    /\ UNCHANGED <<fixed, mutated, main, running, released, ball_positions, timing,
                   detection_time, draw_time, current_distance, max_speed,
                   shots, frame, ball_info, traj, cur, camera, free_left,
                   captures, failed, npush, pushed, emits, ret>>

\* a handler that pauses the tracking loop while it calibrates
handle_calibrate_hoop_pausing(x, y) ==
    /\ Serving
    /\ pc["handler"] = "idle"
    /\ hoop_position' = <<x, y>>
    /\ running' = FALSE
    /\ cmd_left' = cmd_left - 1
    /\ request' = [event |-> "calibrate_hoop", data |-> <<x, y>>]
    /\ pc' = [pc EXCEPT !["handler"] = "b_iter"]
    /\ emitted' = NoEmit
    /\ UNCHANGED <<fixed, mutated, main, released, ball_positions, timing,
                   detection_time, draw_time, current_distance, max_speed,
                   shots, frame, ball_info, traj, cur, camera, free_left,
                   captures, failed, npush, pushed, emits, ret>>

\* handle_calibrate_hoop(data): sets hoop_position, then broadcast_data()
handle_calibrate_hoop(x, y) ==
    /\ Serving
    /\ pc["handler"] = "idle"
    /\ hoop_position' = <<x, y>>
    /\ cmd_left' = cmd_left - 1
    /\ request' = [event |-> "calibrate_hoop", data |-> <<x, y>>]
    /\ pc' = [pc EXCEPT !["handler"] = "b_iter"]
    /\ emitted' = NoEmit
    /\ UNCHANGED <<fixed, mutated, main, running, released, ball_positions, timing,
                   detection_time, draw_time, current_distance, max_speed,
                   shots, frame, ball_info, traj, cur, camera, free_left,
                   captures, failed, npush, pushed, emits, ret>>

\* a reset that keeps the latest entry of the trajectory
handle_reset_keep_latest ==
    /\ Serving
    /\ pc["handler"] = "idle"
    /\ ball_positions' = (IF ball_positions = <<>> THEN <<>>
                          ELSE <<ball_positions[Len(ball_positions)]>>)
    /\ pushed' = <<>>
    /\ cmd_left' = cmd_left - 1
    /\ request' = [event |-> "reset_trajectory", data |-> None]
    /\ pc' = [pc EXCEPT !["handler"] = "b_iter"]
    /\ mutated' = [mutated EXCEPT !["loop"] = (pc["loop"] = "b_next")]
    /\ emitted' = NoEmit
    /\ UNCHANGED <<fixed, main, running, released, hoop_position, timing,
                   detection_time, draw_time, current_distance, max_speed,
                   shots, frame, ball_info, traj, cur, camera, free_left,
                   captures, failed, npush, emits, ret>>

\* handle_reset(): clears ball_positions, then broadcast_data()
handle_reset ==
    /\ Serving
    /\ pc["handler"] = "idle"
    /\ ball_positions' = <<>>
    /\ pushed' = <<>>
    /\ cmd_left' = cmd_left - 1
    /\ request' = [event |-> "reset_trajectory", data |-> None]
    /\ pc' = [pc EXCEPT !["handler"] = "b_iter"]
    /\ mutated' = [mutated EXCEPT !["loop"] = (pc["loop"] = "b_next")]
    /\ emitted' = NoEmit
    /\ UNCHANGED <<fixed, main, running, released, hoop_position, timing,
                   detection_time, draw_time, current_distance, max_speed,
                   shots, frame, ball_info, traj, cur, camera, free_left,
                   captures, failed, npush, emits, ret>>

\* ------------------------------------------------------------------ Next

Next ==
    \/ Start
    \/ stop
    \/ ProcessExit
    \/ LoopTest
    \/ CaptureFail
    \/ \E f \in CameraFrames : CaptureOk(f)
    \/ Detect
    \/ Push
    \/ UpdateDistance
    \/ draw_info
    \/ Tick
    \/ cleanup
    \/ \E t \in Threads : MakeIterator(t)
    \/ \E t \in Threads : BuildTrajectory(t)
    \/ \E t \in Threads : ComputeSpeed(t)
    \/ \E t \in Threads : StoreMaxSpeed(t)
    \/ \E t \in Threads : Emit(t)
    \/ \E p \in HoopInputs : handle_calibrate_hoop(p[1], p[2])
    \/ handle_reset

Spec == Init /\ [][Next]_vars

\* --------------------------------------------------- a long scripted run
\* The camera shows LongScript and then fails; the dashboard client connects
\* for the last frames.

InitLong ==
    /\ Constructed
    /\ camera = LongScript
    /\ free_left = 0
    /\ cmd_left = MaxCommands
    /\ client = (LongFrames - 3)..LongFrames

SpecLong == InitLong /\ [][Next]_vars

\* ------------------------------------------- the estimators called directly
\* calculate_distance_from_hoop and calculate_ball_speed read self.* only:
\* each is called on a tracker whose attributes are drawn from small sets.

Positions == {<<0, 0>>, <<30, 40>>, <<100, 150>>}

Scales == {None, Some(10), Some(50), Some(100)}

RECURSIVE SeqsUpTo(_, _)
SeqsUpTo(S, n) ==
    IF n = 0 THEN {<<>>}
    ELSE LET shorter == SeqsUpTo(S, n - 1)
         IN  shorter \cup {Append(q, e) : q \in shorter, e \in S}

Idle ==
    /\ camera = <<>>
    /\ free_left = 0
    /\ cmd_left = 0
    /\ client = {}

InitDistance ==
    /\ OtherAttributes
    /\ Idle
    /\ ball_positions = <<>>
    /\ pushed = <<>>
    /\ frame_latency = 0
    /\ hoop_position \in {None} \cup Positions \cup HoopInputs
    /\ pixels_per_meter \in Scales

\* a call of calculate_distance_from_hoop(ball_pos)
CallDistance(ball_pos) ==
    /\ ret' = [fn |-> "calculate_distance_from_hoop", arg |-> ball_pos,
               val |-> calculate_distance_from_hoop(ball_pos, hoop_position,
                                                    pixels_per_meter)]
    /\ UNCHANGED <<config, main, running, pc, released, ball_positions,
                   hoop_position, timing, detection_time, draw_time,
                   current_distance, max_speed, shots, frame, ball_info, traj,
                   cur, camera, free_left, cmd_left, captures, failed, npush,
                   pushed, emitted, emits>>

NextDistance == \E b \in Positions \cup HoopInputs : CallDistance(b)

SpecDistance == InitDistance /\ [][NextDistance]_vars

InitSpeed ==
    /\ OtherAttributes
    /\ Idle
    /\ ball_positions \in SeqsUpTo({None} \cup Positions, MaxTrajectory)
    /\ pushed = ball_positions
    /\ frame_latency \in {0, 2, 5}
    /\ hoop_position = None
    /\ pixels_per_meter \in Scales

\* a call of calculate_ball_speed()
CallSpeed ==
    /\ ret' = [fn |-> "calculate_ball_speed", arg |-> None,
               val |-> calculate_ball_speed(ball_positions, pixels_per_meter,
                                            frame_latency)]
    /\ UNCHANGED <<config, main, running, pc, released, ball_positions,
                   hoop_position, timing, detection_time, draw_time,
                   current_distance, max_speed, shots, frame, ball_info, traj,
                   cur, camera, free_left, cmd_left, captures, failed, npush,
                   pushed, emitted, emits>>

NextSpeed == CallSpeed

SpecSpeed == InitSpeed /\ [][NextSpeed]_vars

\* detect_ball reads the frame and the color and radius settings only: it is
\* called on frames whose masks have up to MaxContours contours.

MaxContours == 2

\* contours of two areas, with enclosing circles of radius 5.0, 5.4, 20.0,
\* 149.9 and 150.0 pixels
DetectContours ==
    {[area |-> a, x10 |-> r + 4, y10 |-> a + 6, r10 |-> r] :
        a \in {100, 300}, r \in {50, 54, 200, 1499, 1500}}

InitDetect ==
    /\ Constructed
    /\ Idle

\* a call of detect_ball(frame)
CallDetect(contours) ==
    /\ ret' = [fn |-> "detect_ball", arg |-> contours,
               val |-> detect_ball(contours)]
    /\ UNCHANGED <<config, main, running, pc, released, ball_positions,
                   hoop_position, timing, detection_time, draw_time,
                   current_distance, max_speed, shots, frame, ball_info, traj,
                   cur, camera, free_left, cmd_left, captures, failed, npush,
                   pushed, emitted, emits>>

NextDetect == \E c \in SeqsUpTo(DetectContours, MaxContours) : CallDetect(c)

SpecDetect == InitDetect /\ [][NextDetect]_vars

\* ------------------------------------------------------ scale calibration
\* set_scale is in none of the tracker classes modelled above; it is modelled
\* from the calibration contract: pixels_per_meter = measured_pixels /
\* known_distance_m, a division the source does not guard.

\* how a call ended: returned, or raised the named exception
Returned == <<"return">>
Raised(e) == <<"raise", e>>

\* known distances of 0, 0.5, 1.0 and 2.0 metres, in tenths of a metre, and
\* measured pixel lengths; every quotient of the two is a whole number
KnownDistances == {0, 5, 10, 20}
MeasuredPixels == {0, 50, 100, 200, 300}

\* set_scale(known_distance_m, measured_pixels): the outcome and the new
\* pixels_per_meter; the division raises before anything is assigned
set_scale(known10, measured, ppm) ==
    IF known10 = 0
    THEN [outcome |-> Raised("ZeroDivisionError"), pixels_per_meter |-> ppm]
    ELSE [outcome |-> Returned,
          pixels_per_meter |-> Some((10 * measured) \div known10)]

InitScale ==
    /\ Constructed
    /\ Idle

\* a call of set_scale(known_distance_m, measured_pixels)
CallScale(known10, measured) ==
    LET r == set_scale(known10, measured, pixels_per_meter)
    IN  /\ pixels_per_meter' = r.pixels_per_meter
        /\ ret' = [fn |-> "set_scale", arg |-> <<known10, measured>>,
                   val |-> r.outcome]
        /\ UNCHANGED <<variant, use_picamera, client, request, mutated, main,
                       running, pc, released, ball_positions, hoop_position, timing,
                       detection_time, draw_time, current_distance, max_speed,
                       shots, frame, ball_info, traj, cur, camera, free_left,
                       cmd_left, captures, failed, npush, pushed, emitted,
                       emits>>

NextScale ==
    \E k \in KnownDistances, m \in MeasuredPixels : CallScale(k, m)

SpecScale == InitScale /\ [][NextScale]_vars

\* ---------------------------------------------------------------- claims

\* the last k entries of a sequence
Suffix(q, k) == [i \in 1..(IF Len(q) < k THEN Len(q) ELSE k) |->
                    q[i + (IF Len(q) < k THEN 0 ELSE Len(q) - k)]]

\* C1: the trajectory never holds more than 50 entries, and it holds the
\* most recent entries pushed since it was last cleared, in the order they
\* were pushed: a push onto a full buffer drops the oldest entry only.
C1_BoundedFifo ==
    /\ Len(ball_positions) <= 50
    /\ ball_positions = Suffix(pushed, 50)

\* C1 witness: the buffer is full and has evicted entries, a gap among them
C1_Witness ==
    /\ Len(ball_positions) = 50
    /\ Len(pushed) > 51
    /\ ball_positions[50] = pushed[Len(pushed)]
    /\ \E i \in 1..50 : ball_positions[i] = None

\* the tracking thread is between two cycles or has left the loop
BetweenCycles ==
    pc["loop"] \in {"init", "while", "read", "cleanup", "done", "raised"}

\* the entry a cycle owes the trajectory for the frame it read
EntryFor(shot) ==
    LET found == detect_ball(shot.contours)
    IN  IF found = None THEN None ELSE <<found[1], found[2]>>

\* C2: every cycle that captured a frame pushes exactly one entry, the
\* detected (x, y) or None when nothing was detected: between cycles the
\* loop has pushed as often as it has captured, within a cycle it is at most
\* one push behind, and each push adds the entry of the frame just read.
C2_OnePushPerCycle ==
    /\ [](BetweenCycles => npush = frame_count)
    /\ [](npush \in {frame_count - 1, frame_count})
    /\ [][npush' # npush =>
            /\ npush' = npush + 1
            /\ Len(ball_positions') > 0
            /\ ball_positions'[Len(ball_positions')] = EntryFor(frame)]_vars

\* C2 witness: two cycles done, one that detected the ball and one that did not
C2_Witness ==
    /\ pc["loop"] = "while"
    /\ frame_count >= 2
    /\ npush = frame_count
    /\ \E i, j \in 1..Len(ball_positions) :
          ball_positions[i] = None /\ ball_positions[j] # None

\* C3: whenever the tracking loop has ended, by the flag or by a failed
\* capture, the frame source has been released, in each variant.
C3_ReleasedOnExit == pc["loop"] = "done" => released >= 1

\* C4: the frame source is released at most once and only by the tracking
\* thread's cleanup; once released, no capture is attempted, nothing is
\* pushed, and the thread stays where it ended.
C4_ReleasedOnceTerminal ==
    /\ [](released <= 1)
    /\ [](released = 1 => pc["loop"] = "done")
    /\ [][released' # released =>
            pc["loop"] = "cleanup" /\ pc'["loop"] = "done"]_vars
    /\ [][released >= 1 =>
            /\ released' = released
            /\ captures' = captures
            /\ npush' = npush
            /\ frame_count' = frame_count
            /\ pc'["loop"] = "done"]_vars

\* C4 witness: released after some cycles, with a handler still at work
C4_Witness ==
    /\ released = 1
    /\ frame_count >= 1
    /\ pc["handler"] # "idle"

\* C5: a failed capture ends the loop in that cycle: the failing step leaves
\* frame_count, the trajectory, frame_times and the timing metrics as they
\* were and publishes nothing, and afterwards the loop neither captures nor
\* pushes nor publishes again.
C5_FailureEndsLoop ==
    /\ [](failed => pc["loop"] \in {"cleanup", "done", "killed"})
    /\ [][failed' /\ ~failed =>
            /\ UNCHANGED <<frame_count, ball_positions, frame_times,
                           last_frame_time, frame_latency, fps,
                           detection_time, draw_time>>
            /\ emitted' = NoEmit
            /\ captures' = captures + 1]_vars
    /\ [][failed =>
            /\ captures' = captures
            /\ npush' = npush
            /\ emits'["loop"] = emits["loop"]
            /\ UNCHANGED <<frame_count, frame_times, last_frame_time,
                           frame_latency, fps>>]_vars

\* C5 witness: the capture failed after some frames were tracked
C5_Witness ==
    /\ failed
    /\ frame_count >= 2
    /\ Len(ball_positions) >= 2
    /\ pc["loop"] = "done"

\* the attributes of the tracker that an estimator could write
Attributes == <<ball_positions, hoop_position, pixels_per_meter, timing,
                detection_time, draw_time, current_distance, max_speed,
                shots, running, released>>

\* C6: with hoop_position or pixels_per_meter unset,
\* calculate_distance_from_hoop returns None for every ball position, and the
\* call changes no attribute of the tracker.
C6_AbsentWhenUncalibrated ==
    /\ [](/\ ret.fn = "calculate_distance_from_hoop"
          /\ (hoop_position = None \/ pixels_per_meter = None)
          => ret.val = None)
    /\ [][ret'.fn = "calculate_distance_from_hoop" =>
            UNCHANGED Attributes]_vars

\* C6 witness: a call with the hoop set and the scale unset returned None
C6_Witness ==
    /\ ret.fn = "calculate_distance_from_hoop"
    /\ hoop_position = <<100, 100>>
    /\ pixels_per_meter = None
    /\ ret.arg = <<100, 150>>
    /\ ret.val = None

\* C7: with both set, the distance d returned satisfies
\* (d * pixels_per_meter)^2 = dx^2 + dy^2 and d >= 0; for the hoop at
\* (100, 100), 50 pixels per metre and the ball at (100, 150) it is 1 exactly.
C7_EuclideanOverScale ==
    (/\ ret.fn = "calculate_distance_from_hoop"
     /\ hoop_position # None
     /\ pixels_per_meter # None)
    => /\ ret.val # None
       /\ ret.val[1] >= 0
       /\ ret.val[2] > 0
       /\ ret.val[1] * pixels_per_meter[1] * pixels_per_meter[1] =
             ((ret.arg[1] - hoop_position[1]) * (ret.arg[1] - hoop_position[1])
              + (ret.arg[2] - hoop_position[2]) * (ret.arg[2] - hoop_position[2]))
             * ret.val[2] * ret.val[2]
       /\ (/\ hoop_position = <<100, 100>>
           /\ pixels_per_meter = Some(50)
           /\ ret.arg = <<100, 150>>)
          => /\ ret.val[1] = ret.val[2] * ret.val[2]
             /\ RoundScaled(ret.val, 100) = 100

\* C7 witness: the example of the specification, and a distance off the axes
C7_Witness ==
    /\ ret.fn = "calculate_distance_from_hoop"
    /\ hoop_position = <<100, 100>>
    /\ pixels_per_meter = Some(50)
    /\ ret.arg = <<100, 150>>
    /\ ret.val = <<2500, 50>>

\* both halves of the calibration are set
Calibrated == hoop_position # None /\ pixels_per_meter # None

\* C8 as stated: an "update" that carries a distance, or a current_speed or
\* max_speed other than 0, is published only with hoop_position and
\* pixels_per_meter both set.
C8_FullCalibrationOnly ==
    emitted.event = "update" =>
        /\ emitted.distance # None => Calibrated
        /\ (emitted.current_speed # 0 \/ emitted.max_speed # 0) => Calibrated

\* C8 amended: in BasketballTrackerWeb and BasketballTrackerPi a distance is
\* computed and published only with hoop_position and pixels_per_meter both
\* set; a speed other than 0 is computed and published only with
\* pixels_per_meter set, whether or not the hoop is.
C8_DistanceFullSpeedScale ==
    /\ [](emitted.event = "update" =>
            /\ emitted.distance # None => Calibrated
            /\ (emitted.current_speed # 0 \/ emitted.max_speed # 0)
               => pixels_per_meter # None)
    /\ [][/\ variant # "headless"
          /\ current_distance' # current_distance
          /\ current_distance' # None
          => Calibrated]_vars
    /\ [](\A t \in Threads : ~IsZero(cur[t]) => pixels_per_meter # None)
    /\ [](~IsZero(max_speed) => pixels_per_meter # None)

\* C8 witness: an update publishes a distance and a speed, both from a
\* calibration with both halves set
C8_Witness ==
    /\ emitted.event = "update"
    /\ emitted.distance # None
    /\ emitted.current_speed # 0
    /\ Calibrated

\* the slots of the trajectory that calculate_ball_speed may use: the
\* non-absent ones among the last five
Usable == {i \in 1..Len(ball_positions) :
              i > Len(ball_positions) - 5 /\ ball_positions[i] # None}

\* the greatest member of a non-empty set of numbers
Latest(S) == CHOOSE i \in S : \A j \in S : j <= i

\* the speed s returned is the displacement between the two latest usable
\* slots, over pixels_per_meter, over the latency
IsDisplacementRate(s) ==
    LET last == Latest(Usable)
        prev == Latest(Usable \ {last})
    IN  /\ pixels_per_meter # None
        /\ frame_latency > 0
        /\ s = <<SqDist(ball_positions[last], ball_positions[prev]),
                 pixels_per_meter[1] * frame_latency>>

\* C9 as stated: 0 with fewer than two non-absent entries among the last
\* five slots, and otherwise the displacement between the two most recent of
\* them, over pixels_per_meter, over the latency.
C9_SpeedAsStated ==
    ret.fn = "calculate_ball_speed" =>
        IF Cardinality(Usable) < 2
        THEN IsZero(ret.val)
        ELSE IsDisplacementRate(ret.val)

\* C9 amended: as stated when pixels_per_meter is set (and not 0) and the
\* latency is positive; with two usable entries but pixels_per_meter unset
\* or the latency not positive, the result is 0. For (0,0), (30,40),
\* 10 pixels per metre and a latency of 0.5 s it is 10 m/s exactly.
C9_SpeedOrZero ==
    ret.fn = "calculate_ball_speed" =>
        /\ IF Cardinality(Usable) < 2
           THEN IsZero(ret.val)
           ELSE IF pixels_per_meter # None /\ pixels_per_meter[1] # 0
                   /\ frame_latency > 0
                THEN IsDisplacementRate(ret.val)
                ELSE IsZero(ret.val)
        /\ (/\ Len(ball_positions) >= 2
            /\ SubSeq(ball_positions, Len(ball_positions) - 1,
                      Len(ball_positions)) = <<<<0, 0>>, <<30, 40>>>>
            /\ pixels_per_meter = Some(10)
            /\ frame_latency = 5)
           => /\ ret.val[1] * 100 = (10 * ret.val[2]) * (10 * ret.val[2])
              /\ RoundScaled(ret.val, 10) = 10

\* C9 witness: the example, behind an absent slot and an entry that has
\* left the window
C9_Witness ==
    /\ ret.fn = "calculate_ball_speed"
    /\ Len(ball_positions) = 6
    /\ ball_positions[1] = <<100, 150>>
    /\ ball_positions[4] = None
    /\ ball_positions[5] = <<0, 0>>
    /\ ball_positions[6] = <<30, 40>>
    /\ pixels_per_meter = Some(10)
    /\ frame_latency = 5
    /\ ret.val = <<2500, 50>>

\* C10: max_speed never takes a value lower than one it held, and the
\* max_speed a broadcast publishes is at least the current_speed it computed.
C10_MaxSpeedMonotone ==
    [][/\ ~Greater(max_speed, max_speed')
       /\ emitted'.event = "update" =>
             emitted'.max_speed >= emitted'.current_speed]_vars

\* the contour detect_ball decides on: the first one of maximum area
Decisive(contours) ==
    contours[CHOOSE i \in 1..Len(contours) :
                /\ \A j \in 1..Len(contours) : contours[j].area <= contours[i].area
                /\ \A j \in 1..(i - 1) : contours[j].area < contours[i].area]

\* C11 as stated: the radius of a returned triple lies strictly between
\* min_ball_radius and max_ball_radius, and an enclosing radius at or outside
\* either bound gives None.
C11_RadiusStrictlyInside ==
    (ret.fn = "detect_ball" /\ ret.arg # <<>>) =>
        /\ ret.val # None =>
              min_ball_radius < ret.val[3] /\ ret.val[3] < max_ball_radius
        /\ (\/ Decisive(ret.arg).r10 <= min_ball_radius * 10
            \/ Decisive(ret.arg).r10 >= max_ball_radius * 10)
           => ret.val = None

\* C11 amended: the enclosing-circle radius measured lies strictly between
\* the bounds whenever a triple is returned, and a measured radius at or
\* outside either bound gives None; the radius returned is int() of the
\* measured one, so it satisfies min_ball_radius <= r < max_ball_radius.
C11_MeasuredRadiusInside ==
    (ret.fn = "detect_ball" /\ ret.arg # <<>>) =>
        /\ ret.val # None =>
              /\ min_ball_radius * 10 < Decisive(ret.arg).r10
              /\ Decisive(ret.arg).r10 < max_ball_radius * 10
              /\ ret.val[3] = Decisive(ret.arg).r10 \div 10
              /\ min_ball_radius <= ret.val[3]
              /\ ret.val[3] < max_ball_radius
        /\ (\/ Decisive(ret.arg).r10 <= min_ball_radius * 10
            \/ Decisive(ret.arg).r10 >= max_ball_radius * 10)
           => ret.val = None

\* C11 witness: a circle of radius 5.4 is accepted and returned with radius 5
C11_Witness ==
    /\ ret.fn = "detect_ball"
    /\ Len(ret.arg) = 1
    /\ ret.arg[1].r10 = 54
    /\ ret.val # None
    /\ ret.val[3] = min_ball_radius

\* N of the running class: 5 in BasketballTrackerWeb and BasketballTrackerPi,
\* 10 in BasketballTracker
PublishEvery == IF variant = "headless" THEN 10 ELSE 5

\* C12: the tracking loop publishes exactly in the cycles whose frame count
\* is a multiple of N: each of its publishes comes with frame_count a
\* multiple of N and after the push of that cycle, its k-th publish comes
\* with k * N pushes made, and between cycles no due publish is missing.
C12_PublishEveryNth ==
    /\ [][emits'["loop"] # emits["loop"] =>
            /\ emits'["loop"] = emits["loop"] + 1
            /\ emitted'.src = "loop"
            /\ frame_count' = frame_count
            /\ frame_count % PublishEvery = 0
            /\ npush = frame_count
            /\ npush = emits'["loop"] * PublishEvery]_vars
    /\ [](BetweenCycles => emits["loop"] = frame_count \div PublishEvery)
    /\ [](emits["loop"] \in {frame_count \div PublishEvery,
                             (frame_count \div PublishEvery) - 1})

\* C12 witness: the headless loop publishes for the second time, at frame 20
C12_Witness ==
    /\ variant = "headless"
    /\ emitted.event = "update_data"
    /\ emits["loop"] = 2
    /\ frame_count = 20
    /\ npush = 20

\* C12 also happens in the web classes: the tenth publish, at frame 50
C12_WitnessWeb ==
    /\ variant = "web"
    /\ emitted.event = "update"
    /\ emitted.src = "loop"
    /\ emits["loop"] = 10
    /\ npush = 50

\* C13: the three shot counters are 0 in every state, no step changes them,
\* and every snapshot published reports them and an accuracy of 0.
C13_ShotCountersStayZero ==
    /\ [](total_shots = 0 /\ made_shots = 0 /\ missed_shots = 0)
    /\ [][UNCHANGED shots]_vars
    /\ [](emitted.event # "none" =>
            /\ emitted.total_shots = 0
            /\ emitted.made_shots = 0
            /\ emitted.missed_shots = 0
            /\ emitted.accuracy = 0)

\* C13 witness: a handler's snapshot published after frames with and without
\* the ball were tracked
C13_Witness ==
    /\ emitted.event = "update"
    /\ emitted.src = "handler"
    /\ emitted.accuracy = 0
    /\ emitted.total_shots = 0
    /\ frame_count >= 49
    /\ \E i \in 1..Len(ball_positions) : ball_positions[i] = None

\* C14: the flag is tested once per iteration, so once stop() has cleared it
\* the loop test starts no further cycle; and the loop then reaches the end
\* of tracking_loop and releases the frame source: when the process has
\* ended after stop(), the frame source has been released.
C14_StopReleases ==
    /\ [][(~running /\ pc["loop"] = "while" /\ pc'["loop"] # "while") =>
            pc'["loop"] \in {"cleanup", "done", "killed"}]_vars
    /\ [](main = "gone" => released = 1)

\* C15 as stated: while a calibrate_hoop request is being handled the
\* tracking loop is suspended: it pushes nothing and publishes nothing.
C15_LoopSuspendedWhileCalibrating ==
    [][request.event = "calibrate_hoop" =>
          npush' = npush /\ emits'["loop"] = emits["loop"]]_vars

\* C15 amended: handling a calibrate_hoop request never moves the tracking
\* loop: the handler sets hoop_position in its first step, and no step of
\* the handler thread changes the loop's position, its counters or the
\* keep-running flag; the loop keeps running its cycles meanwhile.
C15_CalibrationLeavesLoopRunning ==
    /\ [][(request.event = "none" /\ request'.event = "calibrate_hoop") =>
            /\ hoop_position' # None
            /\ pc'["handler"] = "b_iter"]_vars
    /\ [][(pc'["handler"] # pc["handler"] /\ main' = main) =>
            /\ pc'["loop"] = pc["loop"]
            /\ running' = running
            /\ npush' = npush
            /\ frame_count' = frame_count
            /\ emits'["loop"] = emits["loop"]]_vars

\* C15 witness: during the only request so far, a calibrate_hoop, the loop
\* has pushed a position the handler's trajectory does not have
C15_Witness ==
    /\ request.event = "calibrate_hoop"
    /\ cmd_left = MaxCommands - 1
    /\ pc["handler"] = "b_speed"
    /\ running
    /\ Len(traj["handler"]) < Len(NonAbsent(ball_positions))

\* C16: a calibrate_hoop request with data (x, y) sets hoop_position to
\* exactly (x, y), leaving the trajectory, pixels_per_meter, the shot
\* counters and the keep-running flag as they were; the handler then
\* publishes one snapshot, which carries (x, y) as its hoop position.
C16_SetHoopThenPublish ==
    /\ [][(request.event = "none" /\ request'.event = "calibrate_hoop") =>
            /\ hoop_position' = request'.data
            /\ UNCHANGED <<ball_positions, pixels_per_meter, shots, running>>]_vars
    /\ [](request.event = "calibrate_hoop" => hoop_position = request.data)
    /\ [][(request.event = "calibrate_hoop" /\ request'.event = "none") =>
            /\ emitted'.event = "update"
            /\ emitted'.src = "handler"
            /\ emitted'.hoop_position = request.data
            /\ emits'["handler"] = emits["handler"] + 1
            /\ UNCHANGED <<hoop_position, ball_positions, pixels_per_meter,
                           shots, running>>]_vars
    /\ [][(request.event = "calibrate_hoop" /\ request' = request
           /\ pc'["handler"] # pc["handler"] /\ main' = main) =>
            /\ emits' = emits
            /\ UNCHANGED <<hoop_position, ball_positions, pixels_per_meter,
                           shots, running>>]_vars

\* C16 witness: a second calibrate_hoop moved the hoop from (100, 100) to
\* (30, 40), and its snapshot went out while the loop holds a trajectory
C16_Witness ==
    /\ emitted.event = "update"
    /\ emitted.src = "handler"
    /\ emitted.hoop_position = <<30, 40>>
    /\ hoop_position = <<30, 40>>
    /\ cmd_left = 0
    /\ request = NoRequest
    /\ Len(ball_positions) >= 2

\* C17: the step that takes a reset_trajectory request leaves ball_positions
\* empty, whatever it held (an empty trajectory stays empty), and leaves
\* hoop_position and pixels_per_meter as they were.
C17_ResetEmptiesTrajectory ==
    [][(request.event = "none" /\ request'.event = "reset_trajectory") =>
        /\ ball_positions' = <<>>
        /\ UNCHANGED <<hoop_position, pixels_per_meter>>]_vars

\* C17 witness: the only reset so far has just emptied a trajectory the loop
\* had pushed to, and the hoop set by the command before it is still there
C17_Witness ==
    /\ request.event = "reset_trajectory"
    /\ pc["handler"] = "b_iter"
    /\ ball_positions = <<>>
    /\ npush >= 2
    /\ hoop_position # None
    /\ cmd_left = MaxCommands - 2

\* C17 witness, idempotence: a second reset found the trajectory already empty
C17_WitnessAgain ==
    /\ request.event = "reset_trajectory"
    /\ pc["handler"] = "b_iter"
    /\ ball_positions = <<>>
    /\ npush = 0
    /\ hoop_position = None
    /\ cmd_left = MaxCommands - 2

\* a handler's snapshot published after the loop appended this cycle's
\* position and before it stored this cycle's distance
Torn ==
    /\ emitted.event = "update"
    /\ emitted.src = "handler"
    /\ pc["loop"] = "dist"
    /\ emitted.trajectory # <<>>
    /\ emitted.trajectory = NonAbsent(ball_positions)
    /\ emitted.trajectory[Len(emitted.trajectory)] = PosOf(ball_info)

\* the distance tracking_loop is about to store for this cycle, as published
ThisCycleDistance ==
    LET d == calculate_distance_from_hoop(PosOf(ball_info), hoop_position,
                                          pixels_per_meter)
    IN  IF d # None /\ ~IsZero(d) THEN Some(RoundScaled(d, 100)) ELSE None

\* C18: in the web and Pi loops the append of a detected position and the
\* store of its distance are two steps, the append leaving current_distance
\* as the cycle before left it, and a handler's snapshot published between
\* the two carries this cycle's position with that earlier distance.
C18_PartialSnapshotPossible ==
    /\ [][(npush' = npush + 1 /\ ball_info # None /\ variant # "headless") =>
            /\ pc'["loop"] = "dist"
            /\ current_distance' = current_distance]_vars
    /\ [][(pc["loop"] = "dist" /\ pc'["loop"] = "dist" /\ main' = main) =>
            /\ pc'["handler"] # pc["handler"]
            /\ current_distance' = current_distance]_vars
    /\ [](Torn => emitted.distance =
                     (IF HasDistance THEN Some(RoundScaled(current_distance, 100))
                      ELSE None))

\* C18 witness: the published trajectory ends in this cycle's position, which
\* no earlier entry has, and the published distance is not this cycle's
C18_Witness ==
    /\ Torn
    /\ hoop_position # None
    /\ pixels_per_meter # None
    /\ emitted.distance # None
    /\ emitted.distance # ThisCycleDistance
    /\ Len(emitted.trajectory) >= 2
    /\ \A i \in 1..(Len(emitted.trajectory) - 1) :
          emitted.trajectory[i] # PosOf(ball_info)

\* C19: set_scale(known_distance_m, measured_pixels) with a known distance
\* other than 0 sets pixels_per_meter to measured_pixels / known_distance_m
\* (2.0 m and 100 px give 50); with a known distance of 0 it reports an
\* invalid-input condition to the caller and leaves pixels_per_meter as it
\* was, and it does not fail in any other way.
C19_ScaleOrInvalidInput ==
    [][ret'.fn = "set_scale" =>
        IF ret'.arg[1] = 0
        THEN /\ ret'.val = Raised("InvalidInput")
             /\ pixels_per_meter' = pixels_per_meter
        ELSE /\ ret'.val = Returned
             /\ pixels_per_meter' # None
             /\ pixels_per_meter'[1] * ret'.arg[1] = 10 * ret'.arg[2]
             /\ (ret'.arg = <<20, 100>> => pixels_per_meter' = Some(50))]_vars

\* the part of C19 the division decides: a known distance other than 0
C19_ScaleIsQuotient ==
    [][(ret'.fn = "set_scale" /\ ret'.arg[1] # 0) =>
        /\ ret'.val = Returned
        /\ pixels_per_meter' # None
        /\ pixels_per_meter'[1] * ret'.arg[1] = 10 * ret'.arg[2]
        /\ (ret'.arg = <<20, 100>> => pixels_per_meter' = Some(50))]_vars

\* set_scale(2.0, 100) has set pixels_per_meter to 50
C19_Witness ==
    /\ ret.fn = "set_scale"
    /\ ret.arg = <<20, 100>>
    /\ ret.val = Returned
    /\ pixels_per_meter = Some(50)

\* set_scale(0, 100) has raised ZeroDivisionError, with the scale kept
C19_WitnessZero ==
    /\ ret.fn = "set_scale"
    /\ ret.arg = <<0, 100>>
    /\ ret.val = Raised("ZeroDivisionError")
    /\ pixels_per_meter = Some(50)

\* C20: detect_ball returns None for a frame without contours; otherwise
\* the first contour of maximum area alone decides: its circle is returned
\* when its radius is in bounds and None is returned when it is not, whatever
\* the other contours are; the call changes no attribute of the tracker.
C20_LargestContourDecides ==
    /\ [](ret.fn = "detect_ball" =>
            IF ret.arg = <<>>
            THEN ret.val = None
            ELSE LET c == Decisive(ret.arg)
                 IN  IF min_ball_radius * 10 < c.r10 /\ c.r10 < max_ball_radius * 10
                     THEN ret.val = <<c.x10 \div 10, c.y10 \div 10, c.r10 \div 10>>
                     ELSE ret.val = None)
    /\ [][ret'.fn = "detect_ball" => UNCHANGED Attributes]_vars

\* C20 witness: the larger contour, of radius 150.0, gives None although the
\* smaller one before it has a radius of 20.0
C20_Witness ==
    /\ ret.fn = "detect_ball"
    /\ Len(ret.arg) = 2
    /\ ret.arg[1].area < ret.arg[2].area
    /\ ret.arg[1].r10 = 200
    /\ ret.arg[2].r10 = 1500
    /\ ret.val = None

\* C20 witness, ties: of two contours of the same area the first decides
C20_WitnessFirstOfEqual ==
    /\ ret.fn = "detect_ball"
    /\ Len(ret.arg) = 2
    /\ ret.arg[1].area = ret.arg[2].area
    /\ ret.arg[1].r10 = 54
    /\ ret.arg[2].r10 = 200
    /\ ret.val = <<5, ret.arg[1].y10 \div 10, 5>>

\* C20 witness: a frame without contours gives None
C20_WitnessNoContours ==
    /\ ret.fn = "detect_ball"
    /\ ret.arg = <<>>
    /\ ret.val = None

\* C21: in BasketballTrackerWeb no step assigns pixels_per_meter, which
\* stays None; so current_distance is None and max_speed is 0 in every
\* state, and every snapshot published carries distance None, current_speed
\* 0 and max_speed 0, whatever the hoop position and the detections.
C21_WebNeverScaled ==
    /\ [][variant = "web" => pixels_per_meter' = pixels_per_meter]_vars
    /\ [](variant = "web" =>
            /\ pixels_per_meter = None
            /\ current_distance = None
            /\ max_speed = Zero
            /\ cur = [t \in Threads |-> Zero]
            /\ emitted.event = "update" =>
                  /\ emitted.distance = None
                  /\ emitted.current_speed = 0
                  /\ emitted.max_speed = 0)

\* C21 witness: a web snapshot with a hoop set and a trajectory of two
\* different positions taken a positive time apart
C21_Witness ==
    /\ variant = "web"
    /\ emitted.event = "update"
    /\ emitted.hoop_position # None
    /\ Len(emitted.trajectory) >= 2
    /\ emitted.trajectory[Len(emitted.trajectory)] #
          emitted.trajectory[Len(emitted.trajectory) - 1]
    /\ frame_latency > 0
    /\ ball_info # None
    /\ emitted.distance = None
    /\ emitted.current_speed = 0

\* C22: while a broadcast_data call iterates ball_positions, on either
\* thread, no step appends to the trajectory or clears it.
C22_NoMutationWhileIterating ==
    [][(\E t \in Threads : pc[t] = "b_next") =>
        /\ npush' = npush
        /\ ~(request.event = "none" /\ request'.event = "reset_trajectory")]_vars

\* the tracking loop pushed while a handler's broadcast was iterating, and
\* the handler's iteration is about to raise
C22_PushUnderHandler ==
    /\ pc["handler"] = "b_next"
    /\ mutated["handler"]
    /\ ball_positions # <<>>

\* a handler cleared the trajectory while the loop's broadcast was iterating,
\* and the tracking thread has ended on the RuntimeError, the camera open
C22_ClearUnderLoop ==
    /\ pc["loop"] = "raised"
    /\ released = 0
    /\ running

====
